---- MODULE Spec2Model ----
(***************************************************************************)
(* The application state machine of real_time_note_taker (src/src/app.rs): *)
(* the App aggregate, its InputMode machine, the per-mode key handlers     *)
(* behind handle_event, the entry store with its note clock, the CSV       *)
(* persistence and the key-rebind protocol with its configuration file.    *)
(*                                                                         *)
(* Conventions.  Option<T> is a sequence of length 0 (None) or 1 (Some).   *)
(* A String is a sequence of characters, each a one-character TLA+ string; *)
(* Utf8Len gives a character's encoded width, so byte offsets and          *)
(* character counts differ as they do in Rust.  Indices are 0-based as in  *)
(* the source; entries[i] of the source is entries[i + 1] here.            *)
(***************************************************************************)
EXTENDS Integers, Sequences, FiniteSets, TLC

VARIABLES
    entries,            \* App.entries: Vec<Entry>
    notes,              \* App.notes: Vec<Note>
    input,              \* App.input: String
    cursor,             \* App.cursor: usize
    mode,               \* App.mode: InputMode
    note_time,          \* App.note_time: Option<DateTime>
    time_hack,          \* App.time_hack: Option<(NaiveTime, Instant)>
    selected,           \* App.selected: Option<usize>
    edit_index,         \* App.edit_index: Option<usize>
    keys,               \* App.keys: KeyBindings
    load_files,         \* App.load_files: Vec<PathBuf>
    load_selected,      \* App.load_selected: usize
    keybind_selected,   \* App.keybind_selected: usize
    capture_action,     \* App.capture_action: Option<Action>
    pending_key,        \* App.pending_key: Option<KeyCode>
    pending_action,     \* App.pending_action: Option<Action>
    pending_conflict,   \* App.pending_conflict: Option<Action>
    theme,              \* App.theme: ThemeName
    theme_selected,     \* App.theme_selected: usize
    now,                \* the system clock (Local::now / Instant::now)
    disk,               \* the CSV files of the save directory
    keysFile,           \* the key-bindings configuration file
    themeFile,          \* the theme configuration file
    rebinds,            \* number of rebinds committed so far (bounded)
    typed,              \* number of characters typed so far (bounded)
    io_faulty,          \* whether file-system operations may fail in this session
    crashed,            \* the process panicked
    exit_code           \* the result of main: None while the event loop runs

entryVars == <<entries, notes, selected>>
inputVars == <<input, cursor>>
pendVars  == <<note_time, edit_index>>
menuVars  == <<keybind_selected, capture_action, pending_key, pending_action,
               pending_conflict>>
bindVars  == <<keys, keysFile, rebinds>>
loadVars  == <<load_files, load_selected>>
themeVars == <<theme, theme_selected, themeFile>>
vars == <<entries, notes, input, cursor, mode, note_time, time_hack, selected,
          edit_index, keys, load_files, load_selected, keybind_selected,
          capture_action, pending_key, pending_action, pending_conflict, theme,
          theme_selected, now, disk, keysFile, themeFile, rebinds, typed, io_faulty,
          crashed, exit_code>>

----------------------------------------------------------------------------
(* Bounds of the model. *)

\* entries never grows beyond this many elements
MaxEntries == 2
\* at most this many characters are typed in a session
MaxTyped == 1
\* the clock stops ticking at this instant
MaxClock == 2
\* length of a day in clock ticks (time-of-day values are 0 .. DayLen - 1)
DayLen == 2
\* at most this many rebinds are committed in a session
MaxRebinds == 2

----------------------------------------------------------------------------
(* Option and String helpers. *)

None == <<>>
Some(v) == <<v>>

\* the character the model uses for a two-byte UTF-8 character
WideChars == {"é"}

\* char::len_utf8
Utf8Len(c) == IF c \in WideChars THEN 2 ELSE 1

RECURSIVE ByteLen(_)
\* String::len, in bytes
ByteLen(s) == IF s = <<>> THEN 0 ELSE Utf8Len(Head(s)) + ByteLen(Tail(s))

\* the byte offset at which character number i (1-based) of s starts
ByteOffset(s, i) == ByteLen(SubSeq(s, 1, i - 1))

\* str::is_char_boundary
is_char_boundary(s, idx) ==
    \E i \in 1..(Len(s) + 1) : ByteOffset(s, i) = idx

\* the 1-based character position that starts at byte offset idx
CharAt(s, idx) == CHOOSE i \in 1..(Len(s) + 1) : ByteOffset(s, i) = idx

\* String::insert(idx, c), defined when idx is a character boundary
StringInsert(s, idx, c) ==
    LET i == CharAt(s, idx)
    IN  SubSeq(s, 1, i - 1) \o <<c>> \o SubSeq(s, i, Len(s))

\* String::remove(idx), defined when idx < len and idx is a character boundary
StringRemove(s, idx) ==
    LET i == CharAt(s, idx)
    IN  SubSeq(s, 1, i - 1) \o SubSeq(s, i + 1, Len(s))

----------------------------------------------------------------------------
(* Key codes, actions, key bindings and the key codec. *)

Char(c) == <<"Char", c>>
KeyEnter == <<"Enter">>
KeyEsc == <<"Esc">>
KeyUp == <<"Up">>
KeyDown == <<"Down">>
KeyLeft == <<"Left">>
KeyRight == <<"Right">>
KeyNull == <<"Null">>
KeyBackspace == <<"Backspace">>
KeyF1 == <<"F", "1">>

IsChar(k) == k[1] = "Char"

\* Action::ALL, in declaration order
ALL == <<"Up", "Down", "Edit", "NewNote", "NewSection", "Save", "Load", "Quit",
         "Cancel", "Bindings", "Theme", "TimeHack">>

Action == {ALL[i] : i \in 1..Len(ALL)}

\* impl Default for KeyBindings
KeyBindings_default ==
    [a \in Action |->
        CASE a = "Up" -> KeyUp
          [] a = "Down" -> KeyDown
          [] a = "Edit" -> Char("e")
          [] a = "NewNote" -> KeyEnter
          [] a = "NewSection" -> Char("s")
          [] a = "Save" -> Char("w")
          [] a = "Load" -> Char("l")
          [] a = "Quit" -> Char("q")
          [] a = "Cancel" -> KeyEsc
          [] a = "Bindings" -> Char("b")
          [] a = "Theme" -> Char("t")
          [] a = "TimeHack" -> Char("h")]

\* KeyBindings::action_for_key: the first action, in declaration order, bound to key
action_for_key(k, key) ==
    LET hits == {i \in 1..Len(ALL) : k[ALL[i]] = key}
    IN  IF hits = {} THEN None
        ELSE Some(ALL[CHOOSE i \in hits : \A j \in hits : i <= j])

\* key_to_string
key_to_string(key) ==
    CASE IsChar(key) -> <<key[2]>>
      [] key = KeyEnter -> <<"E", "n", "t", "e", "r">>
      [] key = KeyEsc -> <<"E", "s", "c">>
      [] key = KeyUp -> <<"U", "p">>
      [] key = KeyDown -> <<"D", "o", "w", "n">>
      [] key = KeyLeft -> <<"L", "e", "f", "t">>
      [] key = KeyRight -> <<"R", "i", "g", "h", "t">>
      [] key = KeyNull -> <<"N", "u", "l", "l">>
      [] key = KeyBackspace -> <<"B", "a", "c", "k", "s", "p", "a", "c", "e">>
      [] key = KeyF1 -> <<"F", "(", "1", ")">>

\* string_to_key
string_to_key(s) ==
    CASE s = <<"E", "n", "t", "e", "r">> -> Some(KeyEnter)
      [] s = <<"E", "s", "c">> -> Some(KeyEsc)
      [] s = <<"U", "p">> -> Some(KeyUp)
      [] s = <<"D", "o", "w", "n">> -> Some(KeyDown)
      [] s = <<"L", "e", "f", "t">> -> Some(KeyLeft)
      [] s = <<"R", "i", "g", "h", "t">> -> Some(KeyRight)
      [] s = <<"N", "u", "l", "l">> -> Some(KeyNull)
      [] OTHER -> IF ByteLen(s) = 1 THEN Some(Char(s[1])) ELSE None

\* Option::unwrap_or
unwrap_or(o, d) == IF o = None THEN d ELSE o[1]

\* impl From<KeyBindings> for KeyBindingsConfig
KeyBindingsConfig_from(k) == [a \in Action |-> key_to_string(k[a])]

\* impl From<KeyBindingsConfig> for KeyBindings
KeyBindings_from(c) ==
    [a \in Action |-> unwrap_or(string_to_key(c[a]), KeyBindings_default[a])]

\* KeyBindings::load_or_default, reading the configuration file f
load_or_default(f) == IF f = None THEN KeyBindings_default ELSE KeyBindings_from(f[1])

----------------------------------------------------------------------------
(* Themes. *)

\* ThemeName::ALL
ThemeName_ALL == <<"Default", "Matrix", "CyanCrush", "Embercore", "ToxicOrchid",
                   "Coldfire">>

\* ThemeName::load_or_default, reading the theme file f
ThemeName_load_or_default(f) == IF f = None THEN "Default" ELSE f[1]

----------------------------------------------------------------------------
(* Entries and the note clock. *)

Note(ts, text) == [kind |-> "Note", timestamp |-> ts, text |-> text]
Section(title) == [kind |-> "Section", title |-> title]

\* DateTime::date_naive as the instant at which the day of t starts
date_naive(t) == (t \div DayLen) * DayLen

\* current_time without the time elapsed since the capture
current_time_frozen ==
    IF time_hack # None
    THEN LET base == time_hack[1][1]
         IN  date_naive(now) + base
    ELSE now

\* App::current_time
current_time ==
    IF time_hack # None
    THEN LET base == time_hack[1][1]
             start == time_hack[1][2]
         IN  date_naive(now) + base + (now - start)
    ELSE now

\* the text of the audit note of finalize_time_hack (its format! call,
\* abstracted to one token)
TimeHackText == <<"T">>

\* NaiveTime::parse_from_str for "%H:%M:%S%.f" and "%H:%M:%S": in the model
\* the one-character strings "0" and "1" are the times of day 0 and 1
parse_from_str(s) ==
    IF s = <<"0">> THEN Some(0)
    ELSE IF s = <<"1">> /\ DayLen > 1 THEN Some(1)
    ELSE None

----------------------------------------------------------------------------
(* Persistence: the CSV codec and the files of the save directory. *)

Digits == <<"0", "1", "2", "3", "4", "5", "6", "7", "8", "9">>

RECURSIVE Decimal(_)
\* the decimal digits of a natural number
Decimal(n) == IF n < 10 THEN <<Digits[n + 1]>>
              ELSE Decimal(n \div 10) \o <<Digits[(n % 10) + 1]>>

DigitValue(c) == (CHOOSE i \in 1..10 : Digits[i] = c) - 1

RECURSIVE DecimalValue(_)
DecimalValue(s) == IF Len(s) = 1 THEN DigitValue(s[1])
                   ELSE 10 * DecimalValue(SubSeq(s, 1, Len(s) - 1)) + DigitValue(s[Len(s)])

IsDecimal(s) == /\ Len(s) >= 1
                /\ \A i \in 1..Len(s) : \E d \in 1..10 : Digits[d] = s[i]
                /\ (Len(s) > 1 => s[1] # "0")

\* DateTime::to_rfc3339: the instant written out, behind the marker "@"
to_rfc3339(t) == <<"@">> \o Decimal(t)

\* DateTime::parse_from_rfc3339(..).with_timezone(&Local): None is the parse error
parse_from_rfc3339(s) ==
    IF Len(s) >= 2 /\ s[1] = "@" /\ IsDecimal(Tail(s))
    THEN Some(DecimalValue(Tail(s)))
    ELSE None

Row(tag, ts, text) == [tag |-> tag, ts |-> ts, text |-> text]

\* the row App::save_to_file writes for one entry
serialize(e) ==
    IF e.kind = "Note" THEN Row("note", to_rfc3339(e.timestamp), e.text)
    ELSE Row("section", <<>>, e.title)

\* App::save_to_file: the rows written, in the order of entries
save_to_file(es) == [i \in 1..Len(es) |-> serialize(es[i])]

RECURSIVE load_rows(_, _)
\* the record loop of App::load_from_file over rows, from the accumulated
\* [entries, notes, ok]; ok = FALSE is the early return of the `?` operator
load_rows(rows, acc) ==
    IF rows = <<>> \/ ~acc.ok THEN acc
    ELSE LET r == Head(rows)
         IN  IF r.tag = "note"
             THEN LET ts == parse_from_rfc3339(r.ts)
                  IN  IF ts = None
                      THEN [acc EXCEPT !.ok = FALSE]
                      ELSE load_rows(Tail(rows),
                              [acc EXCEPT !.notes = Append(@, Note(ts[1], r.text)),
                                          !.entries = Append(@, Note(ts[1], r.text))])
             ELSE IF r.tag = "section"
             THEN load_rows(Tail(rows),
                      [acc EXCEPT !.entries = Append(@, Section(r.text))])
             ELSE load_rows(Tail(rows), acc)

\* load_from_file that stops at a row it cannot read and returns what it has
load_from_file_partial(rows) ==
    [load_rows(rows, [entries |-> <<>>, notes |-> <<>>, ok |-> TRUE])
        EXCEPT !.ok = TRUE]

\* App::load_from_file on a file holding rows
load_from_file(rows) ==
    load_rows(rows, [entries |-> <<>>, notes |-> <<>>, ok |-> TRUE])

\* the files of the save directory the model follows
FileNames == {"notes.csv", "old.csv"}

\* the path start_save proposes, save_dir.join("notes.csv"), abstracted to one
\* character
DefaultSavePath == <<"p">>

\* all orders in which read_dir may list the files of set S
Orders(S) == {f \in [1..Cardinality(S) -> S] : \A i, j \in DOMAIN f : i # j => f[i] # f[j]}

----------------------------------------------------------------------------
(* Key events. *)

KeyEvent(code) == [code |-> code, modifiers |-> "NONE", kind |-> "Press"]

Events(codes) == {KeyEvent(c) : c \in codes}

Panic == crashed' = TRUE

----------------------------------------------------------------------------
(* Entry store operations (state changes of App's methods; each names the      *)
(* fields it assigns, the handlers add the frame).                             *)

\* select_previous that starts from index 0 when nothing is selected
select_previous_from_start ==
    /\ selected' = IF selected = None \/ selected = Some(0) THEN Some(0)
                   ELSE Some(selected[1] - 1)
    /\ UNCHANGED <<entries, notes, inputVars, pendVars, mode, time_hack, crashed>>

\* App::select_previous
select_previous ==
    /\ selected' = IF selected = None \/ selected = Some(0) THEN selected
                   ELSE Some(selected[1] - 1)
    /\ UNCHANGED <<entries, notes, inputVars, pendVars, mode, time_hack, crashed>>

\* select_next without the bounds check
select_next_unclamped ==
    /\ selected' = IF selected # None THEN Some(selected[1] + 1) ELSE Some(0)
    /\ UNCHANGED <<entries, notes, inputVars, pendVars, mode, time_hack, crashed>>

\* App::select_next
select_next ==
    /\ selected' = IF selected # None /\ selected[1] + 1 < Len(entries)
                   THEN Some(selected[1] + 1)
                   ELSE IF selected = None /\ entries # <<>> THEN Some(0)
                   ELSE selected
    /\ UNCHANGED <<entries, notes, inputVars, pendVars, mode, time_hack, crashed>>

\* edit_selected that enters EditingExistingNote for an entry of either kind
edit_selected_as_note ==
    IF selected = None
    THEN UNCHANGED <<entryVars, inputVars, pendVars, mode, time_hack, crashed>>
    ELSE LET idx == selected[1] IN
         IF idx >= Len(entries)
         THEN /\ Panic
              /\ UNCHANGED <<entryVars, inputVars, pendVars, mode, time_hack>>
         ELSE LET e == entries[idx + 1] IN
              /\ input' = IF e.kind = "Note" THEN e.text ELSE e.title
              /\ cursor' = ByteLen(input')
              /\ note_time' = IF e.kind = "Note" THEN Some(e.timestamp) ELSE None
              /\ edit_index' = Some(idx)
              /\ mode' = "EditingExistingNote"
              /\ UNCHANGED <<entryVars, time_hack, crashed>>

\* App::edit_selected
edit_selected ==
    IF selected = None
    THEN UNCHANGED <<entryVars, inputVars, pendVars, mode, time_hack, crashed>>
    ELSE LET idx == selected[1] IN
         IF idx >= Len(entries)
         THEN /\ Panic
              /\ UNCHANGED <<entryVars, inputVars, pendVars, mode, time_hack>>
         ELSE LET e == entries[idx + 1] IN
              /\ input' = IF e.kind = "Note" THEN e.text ELSE e.title
              /\ cursor' = ByteLen(input')
              /\ note_time' = IF e.kind = "Note" THEN Some(e.timestamp) ELSE None
              /\ edit_index' = Some(idx)
              /\ mode' = IF e.kind = "Note" THEN "EditingExistingNote"
                         ELSE "EditingExistingSection"
              /\ UNCHANGED <<entryVars, time_hack, crashed>>

\* App::start_note
start_note ==
    /\ note_time' = Some(current_time)
    /\ input' = <<>>
    /\ cursor' = 0
    /\ edit_index' = None
    /\ mode' = "EditingNote"
    /\ UNCHANGED <<entryVars, time_hack, crashed>>

\* App::start_section
start_section ==
    /\ note_time' = None
    /\ input' = <<>>
    /\ cursor' = 0
    /\ edit_index' = None
    /\ mode' = "EditingSection"
    /\ UNCHANGED <<entryVars, time_hack, crashed>>

\* App::start_save
start_save ==
    /\ input' = DefaultSavePath
    /\ cursor' = ByteLen(input')
    /\ mode' = "Saving"
    /\ UNCHANGED <<entryVars, pendVars, time_hack, crashed>>

\* App::start_time_hack
start_time_hack ==
    /\ input' = <<>>
    /\ cursor' = 0
    /\ mode' = "TimeHack"
    /\ UNCHANGED <<entryVars, pendVars, time_hack, crashed>>

\* the index (1-based) of the first element of ns with timestamp ts, or 0:
\* the iter_mut().find(..) of finalize_note
find_note(ns, ts) ==
    LET hits == {i \in 1..Len(ns) : ns[i].timestamp = ts}
    IN  IF hits = {} THEN 0 ELSE CHOOSE i \in hits : \A j \in hits : i <= j

\* a new note stamped with the time of the finalize
new_note_stamped_late(time, text) == Note(current_time, text)

\* the Note finalize_note builds from the pending timestamp and the buffer
new_note(time, text) == Note(time, text)

\* finalize_note that does not select the note it appends
finalize_note_no_select ==
    IF edit_index # None
    THEN LET idx == edit_index[1] IN
         IF idx >= Len(entries)
         THEN /\ Panic
              /\ edit_index' = None
              /\ UNCHANGED <<entryVars, inputVars, note_time, mode, time_hack>>
         ELSE /\ IF entries[idx + 1].kind = "Note"
                 THEN LET n == [entries[idx + 1] EXCEPT !.text = input]
                          pos == find_note(notes, n.timestamp)
                      IN  /\ entries' = [entries EXCEPT ![idx + 1] = n]
                          /\ notes' = IF pos = 0 THEN notes
                                      ELSE [notes EXCEPT ![pos].text = n.text]
                          /\ input' = <<>>
                 ELSE UNCHANGED <<entries, notes, input>>
              /\ edit_index' = None
              /\ mode' = "Normal"
              /\ note_time' = None
              /\ cursor' = 0
              /\ UNCHANGED <<selected, time_hack, crashed>>
    ELSE IF note_time # None
    THEN LET note == new_note(note_time[1], input) IN
         /\ note_time' = None
         /\ input' = <<>>
         /\ notes' = Append(notes, note)
         /\ entries' = Append(entries, note)
         /\ mode' = "Normal"
         /\ cursor' = 0
         /\ UNCHANGED <<selected, edit_index, time_hack, crashed>>
    ELSE UNCHANGED <<entryVars, inputVars, pendVars, mode, time_hack, crashed>>

\* finalize_note that stamps an edited note with the time of the edit
finalize_note_restamps ==
    IF edit_index # None
    THEN LET idx == edit_index[1] IN
         IF idx >= Len(entries)
         THEN /\ Panic
              /\ edit_index' = None
              /\ UNCHANGED <<entryVars, inputVars, note_time, mode, time_hack>>
         ELSE /\ IF entries[idx + 1].kind = "Note"
                 THEN LET n == [entries[idx + 1] EXCEPT !.text = input,
                                                     !.timestamp = current_time]
                          pos == find_note(notes, n.timestamp)
                      IN  /\ entries' = [entries EXCEPT ![idx + 1] = n]
                          /\ notes' = IF pos = 0 THEN notes
                                      ELSE [notes EXCEPT ![pos].text = n.text]
                          /\ input' = <<>>
                 ELSE UNCHANGED <<entries, notes, input>>
              /\ edit_index' = None
              /\ mode' = "Normal"
              /\ note_time' = None
              /\ cursor' = 0
              /\ UNCHANGED <<selected, time_hack, crashed>>
    ELSE IF note_time # None
    THEN LET note == new_note(note_time[1], input) IN
         /\ note_time' = None
         /\ input' = <<>>
         /\ notes' = Append(notes, note)
         /\ entries' = Append(entries, note)
         /\ selected' = Some(Len(entries') - 1)
         /\ mode' = "Normal"
         /\ cursor' = 0
         /\ UNCHANGED <<edit_index, time_hack, crashed>>
    ELSE UNCHANGED <<entryVars, inputVars, pendVars, mode, time_hack, crashed>>

\* App::finalize_note
finalize_note ==
    IF edit_index # None
    THEN LET idx == edit_index[1] IN
         IF idx >= Len(entries)
         THEN /\ Panic
              /\ edit_index' = None
              /\ UNCHANGED <<entryVars, inputVars, note_time, mode, time_hack>>
         ELSE /\ IF entries[idx + 1].kind = "Note"
                 THEN LET n == [entries[idx + 1] EXCEPT !.text = input]
                          pos == find_note(notes, n.timestamp)
                      IN  /\ entries' = [entries EXCEPT ![idx + 1] = n]
                          /\ notes' = IF pos = 0 THEN notes
                                      ELSE [notes EXCEPT ![pos].text = n.text]
                          /\ input' = <<>>
                 ELSE UNCHANGED <<entries, notes, input>>
              /\ edit_index' = None
              /\ mode' = "Normal"
              /\ note_time' = None
              /\ cursor' = 0
              /\ UNCHANGED <<selected, time_hack, crashed>>
    ELSE IF note_time # None
    THEN LET note == new_note(note_time[1], input) IN
         /\ note_time' = None
         /\ input' = <<>>
         /\ notes' = Append(notes, note)
         /\ entries' = Append(entries, note)
         /\ selected' = Some(Len(entries') - 1)
         /\ mode' = "Normal"
         /\ cursor' = 0
         /\ UNCHANGED <<edit_index, time_hack, crashed>>
    ELSE UNCHANGED <<entryVars, inputVars, pendVars, mode, time_hack, crashed>>

\* finalize_section that leaves the title of an edited section as it was
finalize_section_keeps_title ==
    LET title == input IN
    /\ input' = <<>>
    /\ IF edit_index # None
       THEN LET idx == edit_index[1] IN
            IF idx >= Len(entries)
            THEN /\ Panic
                 /\ edit_index' = None
                 /\ UNCHANGED <<entryVars, cursor, note_time, mode>>
            ELSE /\ note_time' = None
                 /\ edit_index' = None
                 /\ mode' = "Normal"
                 /\ cursor' = 0
                 /\ UNCHANGED <<entries, notes, selected, crashed>>
       ELSE /\ IF title # <<>>
               THEN /\ entries' = Append(entries, Section(title))
                    /\ selected' = Some(Len(entries') - 1)
               ELSE UNCHANGED <<entries, selected>>
            /\ mode' = "Normal"
            /\ cursor' = 0
            /\ UNCHANGED <<notes, pendVars, crashed>>
    /\ UNCHANGED time_hack

\* App::finalize_section
finalize_section ==
    LET title == input IN
    /\ input' = <<>>
    /\ IF edit_index # None
       THEN LET idx == edit_index[1] IN
            IF idx >= Len(entries)
            THEN /\ Panic
                 /\ edit_index' = None
                 /\ UNCHANGED <<entryVars, cursor, note_time, mode>>
            ELSE /\ entries' = IF entries[idx + 1].kind = "Section"
                               THEN [entries EXCEPT ![idx + 1].title = title]
                               ELSE entries
                 /\ note_time' = None
                 /\ edit_index' = None
                 /\ mode' = "Normal"
                 /\ cursor' = 0
                 /\ UNCHANGED <<notes, selected, crashed>>
       ELSE /\ IF title # <<>>
               THEN /\ entries' = Append(entries, Section(title))
                    /\ selected' = Some(Len(entries') - 1)
               ELSE UNCHANGED <<entries, selected>>
            /\ mode' = "Normal"
            /\ cursor' = 0
            /\ UNCHANGED <<notes, pendVars, crashed>>
    /\ UNCHANGED time_hack

\* finalize_time_hack pushing the audit note to entries only
finalize_time_hack_entries_only ==
    /\ IF input = <<>>
       THEN /\ time_hack' = None
            /\ UNCHANGED entryVars
       ELSE LET time == parse_from_str(input) IN
            IF time # None
            THEN /\ time_hack' = Some(<<time[1], now>>)
                 /\ entries' = Append(entries, Note(now, TimeHackText))
                 /\ selected' = Some(Len(entries') - 1)
                 /\ UNCHANGED notes
            ELSE UNCHANGED <<time_hack, entryVars>>
    /\ input' = <<>>
    /\ cursor' = 0
    /\ mode' = "Normal"
    /\ UNCHANGED <<pendVars, crashed>>

\* finalize_time_hack with the audit note stamped by the hacked clock
finalize_time_hack_hacked_stamp ==
    /\ IF input = <<>>
       THEN /\ time_hack' = None
            /\ UNCHANGED entryVars
       ELSE LET time == parse_from_str(input) IN
            IF time # None
            THEN LET note == Note(date_naive(now) + time[1], TimeHackText) IN
                 /\ time_hack' = Some(<<time[1], now>>)
                 /\ notes' = Append(notes, note)
                 /\ entries' = Append(entries, note)
                 /\ selected' = Some(Len(entries') - 1)
            ELSE UNCHANGED <<time_hack, entryVars>>
    /\ input' = <<>>
    /\ cursor' = 0
    /\ mode' = "Normal"
    /\ UNCHANGED <<pendVars, crashed>>

\* finalize_time_hack that stores the result of the parse, so that an input
\* that does not parse removes the hack
finalize_time_hack_drops_on_error ==
    /\ IF input = <<>>
       THEN /\ time_hack' = None
            /\ UNCHANGED entryVars
       ELSE LET time == parse_from_str(input) IN
            IF time # None
            THEN LET note == Note(now, TimeHackText) IN
                 /\ time_hack' = Some(<<time[1], now>>)
                 /\ notes' = Append(notes, note)
                 /\ entries' = Append(entries, note)
                 /\ selected' = Some(Len(entries') - 1)
            ELSE /\ time_hack' = None
                 /\ UNCHANGED entryVars
    /\ input' = <<>>
    /\ cursor' = 0
    /\ mode' = "Normal"
    /\ UNCHANGED <<pendVars, crashed>>

\* App::finalize_time_hack
finalize_time_hack ==
    /\ IF input = <<>>
       THEN /\ time_hack' = None
            /\ UNCHANGED entryVars
       ELSE LET time == parse_from_str(input) IN
            IF time # None
            THEN LET note == Note(now, TimeHackText) IN
                 /\ time_hack' = Some(<<time[1], now>>)
                 /\ notes' = Append(notes, note)
                 /\ entries' = Append(entries, note)
                 /\ selected' = Some(Len(entries') - 1)
            ELSE UNCHANGED <<time_hack, entryVars>>
    /\ input' = <<>>
    /\ cursor' = 0
    /\ mode' = "Normal"
    /\ UNCHANGED <<pendVars, crashed>>

\* cancel_entry that leaves the pending timestamp and the edit index
cancel_entry_keeps_pending ==
    /\ input' = <<>>
    /\ cursor' = 0
    /\ mode' = "Normal"
    /\ UNCHANGED <<note_time, edit_index, entryVars, time_hack, crashed>>

\* App::cancel_entry
cancel_entry ==
    /\ input' = <<>>
    /\ note_time' = None
    /\ edit_index' = None
    /\ cursor' = 0
    /\ mode' = "Normal"
    /\ UNCHANGED <<entryVars, time_hack, crashed>>

----------------------------------------------------------------------------
(* Menus, loading and the handlers behind handle_event. *)

\* the fields no entry-store operation touches
restVars == <<bindVars, menuVars, loadVars, themeVars, now, disk, typed>>

\* the outcomes of one file-system operation: TRUE is success
IoOutcomes == IF io_faulty THEN BOOLEAN ELSE {TRUE}

\* the position of x in sequence s: Iterator::position
position(s, x) ==
    LET hits == {i \in 1..Len(s) : s[i] = x}
    IN  IF hits = {} THEN None
        ELSE Some((CHOOSE i \in hits : \A j \in hits : i <= j) - 1)

\* App::start_load
start_load ==
    /\ load_files' \in Orders({f \in FileNames : disk[f] # None})
    /\ load_selected' = 0
    /\ input' = <<>>
    /\ cursor' = 0
    /\ mode' = "Loading"
    /\ UNCHANGED <<entryVars, pendVars, time_hack, crashed, bindVars, menuVars,
                   themeVars, now, disk, typed>>

\* App::start_keybindings
start_keybindings ==
    /\ keybind_selected' = 0
    /\ mode' = "KeyBindings"
    /\ UNCHANGED <<entryVars, inputVars, pendVars, time_hack, crashed, bindVars,
                   capture_action, pending_key, pending_action, pending_conflict,
                   loadVars, themeVars, now, disk, typed>>

\* App::start_theme_menu
start_theme_menu ==
    /\ theme_selected' = unwrap_or(position(ThemeName_ALL, theme), 0)
    /\ mode' = "ThemeSelect"
    /\ UNCHANGED <<entryVars, inputVars, pendVars, time_hack, crashed, bindVars,
                   menuVars, loadVars, theme, themeFile, now, disk, typed>>

\* App::start_capture_binding
start_capture_binding ==
    /\ IF keybind_selected < Len(ALL)
       THEN /\ capture_action' = Some(ALL[keybind_selected + 1])
            /\ mode' = "KeyCapture"
       ELSE UNCHANGED <<capture_action, mode>>
    /\ UNCHANGED <<entryVars, inputVars, pendVars, time_hack, crashed, bindVars,
                   keybind_selected, pending_key, pending_action, pending_conflict,
                   loadVars, themeVars, now, disk, typed>>

\* App::load_from_file_in_place on a file holding rows; ok is the outcome of
\* opening and reading it.  On success every field is that of App::default()
\* except entries and notes.
load_from_file_in_place(rows, ok) ==
    LET new_app == load_from_file(rows) IN
    IF ok /\ new_app.ok
    THEN /\ entries' = new_app.entries
         /\ notes' = new_app.notes
         /\ input' = <<>>
         /\ cursor' = 0
         /\ mode' = "Normal"
         /\ note_time' = None
         /\ time_hack' = None
         /\ selected' = None
         /\ edit_index' = None
         /\ keys' = load_or_default(keysFile)
         /\ load_files' = <<>>
         /\ load_selected' = 0
         /\ keybind_selected' = 0
         /\ capture_action' = None
         /\ pending_key' = None
         /\ pending_action' = None
         /\ pending_conflict' = None
         /\ theme' = ThemeName_load_or_default(themeFile)
         /\ theme_selected' = 0
    ELSE UNCHANGED <<entryVars, inputVars, pendVars, time_hack, keys, loadVars,
                     menuVars, theme, theme_selected>>

\* App::handle_normal_key
handle_normal_key(key) ==
    LET c == key.code IN
    IF c = keys["Up"] THEN select_previous /\ UNCHANGED restVars
    ELSE IF c = keys["Down"] THEN select_next /\ UNCHANGED restVars
    ELSE IF c = keys["Edit"] THEN edit_selected /\ UNCHANGED restVars
    ELSE IF c = keys["NewNote"] THEN start_note /\ UNCHANGED restVars
    ELSE IF c = keys["NewSection"] THEN start_section /\ UNCHANGED restVars
    ELSE IF c = keys["Save"] THEN start_save /\ UNCHANGED restVars
    ELSE IF c = keys["Load"] THEN start_load
    ELSE IF c = keys["Bindings"] THEN start_keybindings
    ELSE IF c = keys["Theme"] THEN start_theme_menu
    ELSE IF c = keys["TimeHack"] THEN start_time_hack /\ UNCHANGED restVars
    ELSE UNCHANGED vars

\* the Saving arm of handle_editing_key: save to the path in the buffer
confirm_save ==
    LET path == input IN
    /\ input' = <<>>
    /\ \E ok \in IoOutcomes :
          disk' = IF path = DefaultSavePath /\ ok
                  THEN [disk EXCEPT !["notes.csv"] = Some(save_to_file(entries))]
                  ELSE disk
    /\ cursor' = 0
    /\ mode' = "Normal"
    /\ UNCHANGED <<entryVars, pendVars, time_hack, crashed, bindVars, menuVars,
                   loadVars, themeVars, now, typed>>

\* the character arm of handle_editing_key
insert_char(c) ==
    /\ typed < MaxTyped
    /\ typed' = typed + 1
    /\ IF cursor >= ByteLen(input)
       THEN /\ input' = Append(input, c)
            /\ cursor' = cursor + 1
            /\ UNCHANGED crashed
       ELSE IF is_char_boundary(input, cursor)
       THEN /\ input' = StringInsert(input, cursor, c)
            /\ cursor' = cursor + 1
            /\ UNCHANGED crashed
       ELSE Panic /\ UNCHANGED inputVars
    /\ UNCHANGED <<entryVars, pendVars, mode, time_hack>>

\* the Backspace arm of handle_editing_key
backspace ==
    /\ IF cursor > 0 /\ cursor <= ByteLen(input)
       THEN IF is_char_boundary(input, cursor - 1)
            THEN /\ cursor' = cursor - 1
                 /\ input' = StringRemove(input, cursor - 1)
                 /\ UNCHANGED crashed
            ELSE /\ cursor' = cursor - 1
                 /\ Panic
                 /\ UNCHANGED input
       ELSE UNCHANGED <<inputVars, crashed>>
    /\ UNCHANGED <<entryVars, pendVars, mode, time_hack>>

\* App::handle_editing_key
handle_editing_key(key) ==
    LET c == key.code IN
    IF c = keys["NewNote"]
    THEN IF mode \in {"EditingNote", "EditingExistingNote"}
         THEN finalize_note /\ UNCHANGED restVars
         ELSE IF mode \in {"EditingSection", "EditingExistingSection"}
         THEN finalize_section /\ UNCHANGED restVars
         ELSE IF mode = "Saving" THEN confirm_save
         ELSE IF mode = "TimeHack" THEN finalize_time_hack /\ UNCHANGED restVars
         ELSE UNCHANGED vars
    ELSE IF c = keys["Cancel"] THEN cancel_entry /\ UNCHANGED restVars
    ELSE IF c = Char("r") /\ mode = "TimeHack"
    THEN /\ time_hack' = None
         /\ input' = <<>>
         /\ cursor' = 0
         /\ mode' = "Normal"
         /\ UNCHANGED <<entryVars, pendVars, crashed, restVars>>
    ELSE IF IsChar(c) /\ key.modifiers \in {"NONE", "SHIFT"}
    THEN insert_char(c[2])
         /\ UNCHANGED <<bindVars, menuVars, loadVars, themeVars, now, disk>>
    ELSE IF c = KeyBackspace THEN backspace /\ UNCHANGED restVars
    ELSE IF c = KeyLeft
    THEN /\ cursor' = IF cursor > 0 THEN cursor - 1 ELSE cursor
         /\ UNCHANGED <<entryVars, input, pendVars, mode, time_hack, crashed, restVars>>
    ELSE IF c = KeyRight
    THEN /\ cursor' = IF cursor < ByteLen(input) THEN cursor + 1 ELSE cursor
         /\ UNCHANGED <<entryVars, input, pendVars, mode, time_hack, crashed, restVars>>
    ELSE UNCHANGED vars

\* App::handle_loading_key
handle_loading_key(key) ==
    LET c == key.code IN
    IF c = keys["Up"]
    THEN /\ load_selected' = IF load_selected > 0 THEN load_selected - 1 ELSE load_selected
         /\ UNCHANGED <<entryVars, inputVars, pendVars, mode, time_hack, crashed,
                        bindVars, menuVars, load_files, themeVars, now, disk, typed>>
    ELSE IF c = keys["Down"]
    THEN /\ load_selected' = IF load_selected + 1 < Len(load_files)
                             THEN load_selected + 1 ELSE load_selected
         /\ UNCHANGED <<entryVars, inputVars, pendVars, mode, time_hack, crashed,
                        bindVars, menuVars, load_files, themeVars, now, disk, typed>>
    ELSE IF c = keys["NewNote"]
    THEN IF load_selected < Len(load_files)
         THEN /\ \E ok \in IoOutcomes :
                    load_from_file_in_place(disk[load_files[load_selected + 1]][1], ok)
              /\ mode' = "Normal"
              /\ UNCHANGED <<crashed, keysFile, rebinds, themeFile, now, disk, typed>>
         ELSE /\ mode' = "Normal"
              /\ UNCHANGED <<entryVars, inputVars, pendVars, time_hack, crashed,
                             bindVars, menuVars, loadVars, themeVars, now, disk, typed>>
    ELSE IF c = keys["Cancel"]
    THEN /\ mode' = "Normal"
         /\ UNCHANGED <<entryVars, inputVars, pendVars, time_hack, crashed,
                        bindVars, menuVars, loadVars, themeVars, now, disk, typed>>
    ELSE UNCHANGED vars

\* KeyBindings::save after the bindings became k; ok is the outcome of the write
KeyBindings_save(k, ok) ==
    keysFile' = IF ok THEN Some(KeyBindingsConfig_from(k)) ELSE keysFile

\* KeyBindings::set with the arm of Down assigning the field of Up
KeyBindings_set_miswired(k, action, key) ==
    [k EXCEPT ![IF action = "Down" THEN "Up" ELSE action] = key]

\* KeyBindings::set
KeyBindings_set(k, action, key) == [k EXCEPT ![action] = key]

\* App::handle_keybindings_key
handle_keybindings_key(key) ==
    LET c == key.code IN
    IF c = keys["Up"]
    THEN /\ keybind_selected' = IF keybind_selected > 0 THEN keybind_selected - 1
                                ELSE keybind_selected
         /\ UNCHANGED <<entryVars, inputVars, pendVars, mode, time_hack, crashed,
                        bindVars, capture_action, pending_key, pending_action,
                        pending_conflict, loadVars, themeVars, now, disk, typed>>
    ELSE IF c = keys["Down"]
    THEN /\ keybind_selected' = IF keybind_selected + 1 < Len(ALL)
                                THEN keybind_selected + 1 ELSE keybind_selected
         /\ UNCHANGED <<entryVars, inputVars, pendVars, mode, time_hack, crashed,
                        bindVars, capture_action, pending_key, pending_action,
                        pending_conflict, loadVars, themeVars, now, disk, typed>>
    ELSE IF c = KeyEnter THEN start_capture_binding
    ELSE IF c = keys["Cancel"]
    THEN /\ mode' = "Normal"
         /\ UNCHANGED <<entryVars, inputVars, pendVars, time_hack, crashed,
                        bindVars, menuVars, loadVars, themeVars, now, disk, typed>>
    ELSE UNCHANGED vars

\* handle_capture_key whose Cancel arm is taken only while Cancel is captured,
\* so that the Cancel key is a candidate key for every other action
handle_capture_key_no_abort(key) ==
    LET code == key.code IN
    IF capture_action = None THEN UNCHANGED vars
    ELSE LET action == capture_action[1] IN
    IF code = keys["Cancel"] /\ action = "Cancel"
    THEN /\ capture_action' = None
         /\ mode' = "KeyBindings"
         /\ UNCHANGED <<entryVars, inputVars, pendVars, time_hack, crashed,
                        bindVars, keybind_selected, pending_key, pending_action,
                        pending_conflict, loadVars, themeVars, now, disk, typed>>
    ELSE IF code = keys["Bindings"] /\ action # "Bindings"
    THEN /\ mode' = "BindWarning"
         /\ UNCHANGED <<entryVars, inputVars, pendVars, time_hack, crashed,
                        bindVars, menuVars, loadVars, themeVars, now, disk, typed>>
    ELSE LET conflict == action_for_key(keys, code) IN
         /\ capture_action' = None
         /\ IF conflict # None /\ conflict[1] # action
            THEN /\ pending_key' = Some(code)
                 /\ pending_action' = Some(action)
                 /\ pending_conflict' = Some(conflict[1])
                 /\ mode' = "ConfirmReplace"
                 /\ UNCHANGED bindVars
            ELSE /\ keys' = KeyBindings_set(keys, action, code)
                 /\ keys' # keys => rebinds < MaxRebinds
                 /\ rebinds' = IF keys' # keys THEN rebinds + 1 ELSE rebinds
                 /\ \E ok \in IoOutcomes : KeyBindings_save(keys', ok)
                 /\ mode' = "KeyBindings"
                 /\ UNCHANGED <<pending_key, pending_action, pending_conflict>>
         /\ UNCHANGED <<entryVars, inputVars, pendVars, time_hack, crashed,
                        keybind_selected, loadVars, themeVars, now, disk, typed>>

\* App::handle_capture_key
handle_capture_key(key) ==
    LET code == key.code IN
    IF capture_action = None THEN UNCHANGED vars
    ELSE LET action == capture_action[1] IN
    IF code = keys["Cancel"]
    THEN /\ capture_action' = None
         /\ mode' = "KeyBindings"
         /\ UNCHANGED <<entryVars, inputVars, pendVars, time_hack, crashed,
                        bindVars, keybind_selected, pending_key, pending_action,
                        pending_conflict, loadVars, themeVars, now, disk, typed>>
    ELSE IF code = keys["Bindings"] /\ action # "Bindings"
    THEN /\ mode' = "BindWarning"
         /\ UNCHANGED <<entryVars, inputVars, pendVars, time_hack, crashed,
                        bindVars, menuVars, loadVars, themeVars, now, disk, typed>>
    ELSE LET conflict == action_for_key(keys, code) IN
         /\ capture_action' = None
         /\ IF conflict # None /\ conflict[1] # action
            THEN /\ pending_key' = Some(code)
                 /\ pending_action' = Some(action)
                 /\ pending_conflict' = Some(conflict[1])
                 /\ mode' = "ConfirmReplace"
                 /\ UNCHANGED bindVars
            ELSE /\ keys' = KeyBindings_set(keys, action, code)
                 /\ keys' # keys => rebinds < MaxRebinds
                 /\ rebinds' = IF keys' # keys THEN rebinds + 1 ELSE rebinds
                 /\ \E ok \in IoOutcomes : KeyBindings_save(keys', ok)
                 /\ mode' = "KeyBindings"
                 /\ UNCHANGED <<pending_key, pending_action, pending_conflict>>
         /\ UNCHANGED <<entryVars, inputVars, pendVars, time_hack, crashed,
                        keybind_selected, loadVars, themeVars, now, disk, typed>>

\* handle_bind_warning_key that keeps the capture target when cancelled
handle_bind_warning_key_keeps_target(key) ==
    /\ IF key.code = keys["Cancel"]
       THEN /\ mode' = "KeyBindings"
            /\ UNCHANGED capture_action
       ELSE /\ mode' = "KeyCapture"
            /\ UNCHANGED capture_action
    /\ UNCHANGED <<entryVars, inputVars, pendVars, time_hack, crashed, bindVars,
                   keybind_selected, pending_key, pending_action, pending_conflict,
                   loadVars, themeVars, now, disk, typed>>

\* App::handle_bind_warning_key
handle_bind_warning_key(key) ==
    /\ IF key.code = keys["Cancel"]
       THEN /\ capture_action' = None
            /\ mode' = "KeyBindings"
       ELSE /\ mode' = "KeyCapture"
            /\ UNCHANGED capture_action
    /\ UNCHANGED <<entryVars, inputVars, pendVars, time_hack, crashed, bindVars,
                   keybind_selected, pending_key, pending_action, pending_conflict,
                   loadVars, themeVars, now, disk, typed>>

\* handle_confirm_key that binds the new action and leaves the conflicting
\* action on its key
handle_confirm_key_keeps_conflict(key) ==
    LET c == key.code IN
    IF c = KeyEnter
    THEN /\ IF pending_key # None /\ pending_action # None /\ pending_conflict # None
            THEN /\ rebinds < MaxRebinds
                 /\ rebinds' = rebinds + 1
                 /\ keys' = KeyBindings_set(keys, pending_action[1], pending_key[1])
                 /\ \E ok \in IoOutcomes : KeyBindings_save(keys', ok)
            ELSE UNCHANGED bindVars
         /\ pending_key' = None
         /\ pending_action' = None
         /\ pending_conflict' = None
         /\ mode' = "KeyBindings"
         /\ UNCHANGED <<entryVars, inputVars, pendVars, time_hack, crashed,
                        keybind_selected, capture_action, loadVars, themeVars, now, disk, typed>>
    ELSE IF c = keys["Cancel"]
    THEN /\ pending_key' = None
         /\ pending_action' = None
         /\ pending_conflict' = None
         /\ mode' = "KeyBindings"
         /\ UNCHANGED <<entryVars, inputVars, pendVars, time_hack, crashed, bindVars,
                        keybind_selected, capture_action, loadVars, themeVars, now, disk, typed>>
    ELSE UNCHANGED vars

\* handle_confirm_key whose Cancel arm leaves the stash in place
handle_confirm_key_cancel_keeps_stash(key) ==
    LET c == key.code IN
    IF c = KeyEnter
    THEN /\ IF pending_key # None /\ pending_action # None /\ pending_conflict # None
            THEN /\ rebinds < MaxRebinds
                 /\ rebinds' = rebinds + 1
                 /\ keys' = KeyBindings_set(
                                KeyBindings_set(keys, pending_conflict[1], KeyNull),
                                pending_action[1], pending_key[1])
                 /\ \E ok \in IoOutcomes : KeyBindings_save(keys', ok)
            ELSE UNCHANGED bindVars
         /\ pending_key' = None
         /\ pending_action' = None
         /\ pending_conflict' = None
         /\ mode' = "KeyBindings"
         /\ UNCHANGED <<entryVars, inputVars, pendVars, time_hack, crashed,
                        keybind_selected, capture_action, loadVars, themeVars, now, disk, typed>>
    ELSE IF c = keys["Cancel"]
    THEN /\ mode' = "KeyBindings"
         /\ UNCHANGED <<entryVars, inputVars, pendVars, time_hack, crashed, bindVars,
                        keybind_selected, capture_action, pending_key, pending_action,
                        pending_conflict, loadVars, themeVars, now, disk, typed>>
    ELSE UNCHANGED vars

\* App::handle_confirm_key
handle_confirm_key(key) ==
    LET c == key.code IN
    IF c = KeyEnter
    THEN /\ IF pending_key # None /\ pending_action # None /\ pending_conflict # None
            THEN /\ rebinds < MaxRebinds
                 /\ rebinds' = rebinds + 1
                 /\ keys' = KeyBindings_set(
                                KeyBindings_set(keys, pending_conflict[1], KeyNull),
                                pending_action[1], pending_key[1])
                 /\ \E ok \in IoOutcomes : KeyBindings_save(keys', ok)
            ELSE UNCHANGED bindVars
         /\ pending_key' = None
         /\ pending_action' = None
         /\ pending_conflict' = None
         /\ mode' = "KeyBindings"
         /\ UNCHANGED <<entryVars, inputVars, pendVars, time_hack, crashed,
                        keybind_selected, capture_action, loadVars, themeVars, now, disk, typed>>
    ELSE IF c = keys["Cancel"]
    THEN /\ pending_key' = None
         /\ pending_action' = None
         /\ pending_conflict' = None
         /\ mode' = "KeyBindings"
         /\ UNCHANGED <<entryVars, inputVars, pendVars, time_hack, crashed, bindVars,
                        keybind_selected, capture_action, loadVars, themeVars, now, disk, typed>>
    ELSE UNCHANGED vars

\* App::handle_theme_key
handle_theme_key(key) ==
    LET c == key.code IN
    IF c = keys["Up"]
    THEN /\ theme_selected' = IF theme_selected > 0 THEN theme_selected - 1
                              ELSE theme_selected
         /\ UNCHANGED <<entryVars, inputVars, pendVars, mode, time_hack, crashed,
                        bindVars, menuVars, loadVars, theme, themeFile, now, disk, typed>>
    ELSE IF c = keys["Down"]
    THEN /\ theme_selected' = IF theme_selected + 1 < Len(ThemeName_ALL)
                              THEN theme_selected + 1 ELSE theme_selected
         /\ UNCHANGED <<entryVars, inputVars, pendVars, mode, time_hack, crashed,
                        bindVars, menuVars, loadVars, theme, themeFile, now, disk, typed>>
    ELSE IF c = KeyEnter
    THEN /\ IF theme_selected < Len(ThemeName_ALL)
            THEN /\ theme' = ThemeName_ALL[theme_selected + 1]
                 /\ \E ok \in IoOutcomes :
                       themeFile' = IF ok THEN Some(theme') ELSE themeFile
            ELSE UNCHANGED <<theme, themeFile>>
         /\ mode' = "Normal"
         /\ UNCHANGED <<entryVars, inputVars, pendVars, time_hack, crashed,
                        bindVars, menuVars, loadVars, theme_selected, now, disk, typed>>
    ELSE IF c = keys["Cancel"]
    THEN /\ mode' = "Normal"
         /\ UNCHANGED <<entryVars, inputVars, pendVars, time_hack, crashed,
                        bindVars, menuVars, loadVars, themeVars, now, disk, typed>>
    ELSE UNCHANGED vars

EditingModes == {"EditingNote", "EditingSection", "EditingExistingNote",
                 "EditingExistingSection", "Saving", "TimeHack"}

\* App::handle_event for a key event
handle_event(key) ==
    IF key.kind # "Press" THEN UNCHANGED vars
    ELSE IF mode = "Normal" THEN handle_normal_key(key)
    ELSE IF mode = "Loading" THEN handle_loading_key(key)
    ELSE IF mode = "KeyBindings" THEN handle_keybindings_key(key)
    ELSE IF mode = "KeyCapture" THEN handle_capture_key(key)
    ELSE IF mode = "ConfirmReplace" THEN handle_confirm_key(key)
    ELSE IF mode = "BindWarning" THEN handle_bind_warning_key(key)
    ELSE IF mode = "ThemeSelect" THEN handle_theme_key(key)
    ELSE handle_editing_key(key)

----------------------------------------------------------------------------
(* The state machine: one action per handler, the key drawn from a set K of   *)
(* key events.                                                                 *)

\* the process is alive and the step stays inside the bounds
Step(K) ==
    /\ ~crashed
    /\ exit_code = None
    /\ \E key \in K : handle_event(key)
    /\ Len(entries') <= MaxEntries
    /\ UNCHANGED <<io_faulty, exit_code>>

NormalKey(K) == mode = "Normal" /\ Step(K)
EditingKey(K) == mode \in EditingModes /\ Step(K)
LoadingKey(K) == mode = "Loading" /\ Step(K)
KeyBindingsKey(K) == mode = "KeyBindings" /\ Step(K)
KeyCaptureKey(K) == mode = "KeyCapture" /\ Step(K)
ConfirmReplaceKey(K) == mode = "ConfirmReplace" /\ Step(K)
BindWarningKey(K) == mode = "BindWarning" /\ Step(K)
ThemeSelectKey(K) == mode = "ThemeSelect" /\ Step(K)

\* the clock advances between key events
Tick ==
    /\ ~crashed
    /\ exit_code = None
    /\ now < MaxClock
    /\ now' = now + 1
    /\ UNCHANGED <<entryVars, inputVars, pendVars, mode, time_hack, crashed,
                   bindVars, menuVars, loadVars, themeVars, disk, typed, io_faulty,
                   exit_code>>

\* a file found in the save directory at start-up: two notes with one timestamp,
\* a row of another kind between them, and a section
OldFile == <<Row("note", to_rfc3339(0), <<"a">>), Row("other", <<>>, <<>>),
             Row("note", to_rfc3339(0), <<"b">>), Row("section", <<>>, <<"s">>)>>

\* impl Default for App with the configuration files absent and the clock at 0;
\* files are the CSV files found in the save directory, budget the number of
\* characters the user will type, faulty whether file operations may fail
AppDefault(files, budget, faulty) ==
    /\ entries = <<>>
    /\ notes = <<>>
    /\ input = <<>>
    /\ cursor = 0
    /\ mode = "Normal"
    /\ note_time = None
    /\ time_hack = None
    /\ selected = None
    /\ edit_index = None
    /\ keysFile = None
    /\ keys = load_or_default(keysFile)
    /\ load_files = <<>>
    /\ load_selected = 0
    /\ keybind_selected = 0
    /\ capture_action = None
    /\ pending_key = None
    /\ pending_action = None
    /\ pending_conflict = None
    /\ themeFile = None
    /\ theme = ThemeName_load_or_default(themeFile)
    /\ theme_selected = 0
    /\ now = 0
    /\ disk \in files
    /\ rebinds = 0
    /\ typed = MaxTyped - budget
    /\ io_faulty \in faulty
    /\ crashed = FALSE
    /\ exit_code = None

NoFiles == [f \in FileNames |-> None]
WithOldFile(n) == [f \in FileNames |-> IF f = "old.csv" THEN Some(SubSeq(OldFile, 1, n))
                                       ELSE None]

----------------------------------------------------------------------------
(* Spec: creating, selecting, editing and cancelling entries under the        *)
(* default bindings, in a fresh app with an empty save directory.             *)

EntryKeys == Events({KeyEnter, KeyEsc, KeyUp, KeyDown, Char("e"), Char("s"),
                     Char(" "), KeyBackspace})

Init == AppDefault({NoFiles}, MaxTyped, {FALSE})

Next ==
    \/ NormalKey(EntryKeys)
    \/ EditingKey(EntryKeys)
    \/ Tick

Spec == Init /\ [][Next]_vars

----------------------------------------------------------------------------
(* SpecStore: notes, the time hack and in-place loads, with a file in the     *)
(* save directory and a file system that may fail.                            *)

StoreKeys == Events({KeyEnter, KeyEsc, KeyUp, KeyDown, Char("e"), Char("h"),
                     Char("l"), Char("1")})

InitStore == AppDefault({WithOldFile(MaxEntries + 1)}, MaxTyped, {TRUE})

NextStore ==
    \/ NormalKey(StoreKeys)
    \/ EditingKey(StoreKeys)
    \/ LoadingKey(StoreKeys)
    \/ Tick

SpecStore == InitStore /\ [][NextStore]_vars

----------------------------------------------------------------------------
(* SpecKeys: the rebind protocol with the configuration file, followed by     *)
(* in-place loads and note entry.  The user types no text, and the keys      *)
(* offered to a capture are Esc and F1.                                       *)

MenuKeys == Events({KeyEnter, KeyEsc, KeyUp, KeyDown, Char("b"), Char("l"), KeyF1})

CaptureKeys == Events({KeyEsc, KeyF1})

InitKeys == AppDefault({WithOldFile(1)}, 0, {FALSE})

NextKeys ==
    \/ NormalKey(MenuKeys)
    \/ EditingKey(MenuKeys)
    \/ LoadingKey(MenuKeys)
    \/ KeyBindingsKey(MenuKeys)
    \/ KeyCaptureKey(CaptureKeys)
    \/ ConfirmReplaceKey(MenuKeys)
    \/ BindWarningKey(MenuKeys)

SpecKeys == InitKeys /\ [][NextKeys]_vars

----------------------------------------------------------------------------
(* SpecBind: the rebind protocol alone, every mode reachable from it, in a    *)
(* fresh app with an empty save directory.  The user types no text; the keys *)
(* offered to a capture include Enter and the keys of the menu itself.        *)

BindKeys == Events({KeyEnter, KeyEsc, KeyUp, KeyDown, Char("b")})

BindCaptureKeys == Events({KeyEnter, KeyEsc, KeyDown, Char("b"), KeyF1})

\* in Normal mode the user only asks for the bindings menu
BindNormalKeys == Events({Char("b")})

InitBind == AppDefault({NoFiles}, 0, {FALSE})

NextBind ==
    \/ NormalKey(BindNormalKeys)
    \/ EditingKey(BindKeys)
    \/ LoadingKey(BindKeys)
    \/ ThemeSelectKey(BindKeys)
    \/ KeyBindingsKey(BindKeys)
    \/ KeyCaptureKey(BindCaptureKeys)
    \/ ConfirmReplaceKey(BindKeys)
    \/ BindWarningKey(BindKeys)

SpecBind == InitBind /\ [][NextBind]_vars

----------------------------------------------------------------------------
(* SpecCodec: the key codec at work.  The first action of the bindings menu   *)
(* is rebound to symbolic keys and to printable characters, the bindings are  *)
(* written to the configuration file with key_to_string, and an in-place load *)
(* reads them back with string_to_key.                                        *)

\* the symbolic keys the codec names
SymbolicKeys == {KeyEnter, KeyEsc, KeyUp, KeyDown, KeyLeft, KeyRight, KeyNull}

\* printable characters: one-byte ones and the two-byte ones
PrintableChars == {"a", "Z", "1", " "} \cup WideChars

CodecCaptureKeys ==
    Events((SymbolicKeys \ {KeyNull}) \cup {Char(c) : c \in PrintableChars})

CodecNormalKeys == Events({Char("b"), Char("l")})

CodecMenuKeys == Events({KeyEnter, KeyEsc})

InitCodec == AppDefault({WithOldFile(1)}, 0, {FALSE})

NextCodec ==
    \/ NormalKey(CodecNormalKeys)
    \/ LoadingKey(CodecMenuKeys)
    \/ KeyBindingsKey(CodecMenuKeys)
    \/ KeyCaptureKey(CodecCaptureKeys)
    \/ ConfirmReplaceKey(CodecMenuKeys)

SpecCodec == InitCodec /\ [][NextCodec]_vars

----------------------------------------------------------------------------
(* SpecReload: rebinds of keys the menus do not use, followed by in-place     *)
(* loads that read the bindings back and by further captures.  The user types *)
(* no text; the keys offered to a capture are F1 and the default Load key.    *)

ReloadNormalKeys == Events({Char("b"), Char("l"), KeyF1})

ReloadKeys == Events({KeyEnter, KeyEsc, KeyDown, Char("l"), KeyF1})

ReloadCaptureKeys == Events({Char("l"), KeyF1})

InitReload == AppDefault({WithOldFile(1)}, 0, {FALSE})

NextReload ==
    \/ NormalKey(ReloadNormalKeys)
    \/ EditingKey(ReloadKeys)
    \/ LoadingKey(ReloadKeys)
    \/ ThemeSelectKey(ReloadKeys)
    \/ KeyBindingsKey(ReloadKeys)
    \/ KeyCaptureKey(ReloadCaptureKeys)
    \/ ConfirmReplaceKey(ReloadKeys)

SpecReload == InitReload /\ [][NextReload]_vars

----------------------------------------------------------------------------
(* SpecHack: the time hack.  The user sets, replaces, resets and clears the   *)
(* hack while the clock ticks past midnight, and takes notes under it; one    *)
(* more character than elsewhere may be typed, so that a second input can     *)
(* follow a first.                                                            *)

HackKeys == Events({KeyEnter, KeyEsc, Char("h"), Char("1"), Char("e"), Char("r")})

InitHack == AppDefault({NoFiles}, MaxTyped + 1, {FALSE})

NextHack ==
    \/ NormalKey(HackKeys)
    \/ EditingKey(HackKeys)
    \/ Tick

SpecHack == InitHack /\ [][NextHack]_vars

----------------------------------------------------------------------------
(* SpecEdit: the input line.  Two characters may be typed, one of them of two *)
(* bytes, and the caret is moved and characters are deleted between them.     *)

EditKeys == Events({KeyEnter, KeyEsc, KeyLeft, KeyRight, KeyBackspace,
                    Char("s"), Char("a")} \cup {Char(c) : c \in WideChars})

InitEdit == AppDefault({NoFiles}, MaxTyped + 1, {FALSE})

NextEdit ==
    \/ NormalKey(EditKeys)
    \/ EditingKey(EditKeys)

SpecEdit == InitEdit /\ [][NextEdit]_vars

----------------------------------------------------------------------------
(* SpecFail: saving and loading when the file system fails.  The save         *)
(* directory holds a file whose second note row carries a timestamp that does *)
(* not parse, and every file operation may fail; the user takes notes, sets a *)
(* time hack, saves and loads.                                                *)

DamagedFile == <<Row("note", to_rfc3339(0), <<"a">>), Row("note", <<"a">>, <<"b">>)>>

WithDamagedFile == [f \in FileNames |-> IF f = "old.csv" THEN Some(DamagedFile)
                                        ELSE None]

FailKeys == Events({KeyEnter, KeyEsc, KeyDown, Char("w"), Char("l"), Char("h"),
                    Char("1")})

InitFail == AppDefault({WithDamagedFile}, MaxTyped, {TRUE})

NextFail ==
    \/ NormalKey(FailKeys)
    \/ EditingKey(FailKeys)
    \/ LoadingKey(FailKeys)

SpecFail == InitFail /\ [][NextFail]_vars

----------------------------------------------------------------------------
(* SpecMain: the program run as `rtnt --file old.csv`, with or without        *)
(* --config.  main loads the file, runs the event loop until the Quit key is  *)
(* pressed, and saves to the file on exit; every file operation may fail.     *)

\* the path given with --file
CliFile == "old.csv"

\* the bindings main installs with App::set_keybindings when --config is given:
\* a table other than the one of the default configuration file
ConfigKeys == [KeyBindings_default EXCEPT !["Down"] = Char("j")]

\* main, lines 46-50: App::load_from_file(file).unwrap_or_else(|_| App::new())
main_load(files, ok) ==
    LET loaded == IF files[CliFile] # None /\ ok
                  THEN load_from_file(files[CliFile][1])
                  ELSE [entries |-> <<>>, notes |-> <<>>, ok |-> FALSE]
    IN  IF loaded.ok THEN loaded ELSE [loaded EXCEPT !.entries = <<>>, !.notes = <<>>]

\* the state main hands to run: the loaded or the fresh App, with the bindings
\* of --config installed by set_keybindings when the option is given
InitMain ==
    /\ disk \in {WithOldFile(MaxEntries), WithDamagedFile}
    /\ io_faulty = TRUE
    /\ \E ok \in BOOLEAN :
          /\ entries = main_load(disk, ok).entries
          /\ notes = main_load(disk, ok).notes
    /\ input = <<>>
    /\ cursor = 0
    /\ mode = "Normal"
    /\ note_time = None
    /\ time_hack = None
    /\ selected = None
    /\ edit_index = None
    /\ keysFile = None
    /\ keys \in {load_or_default(keysFile), ConfigKeys}
    /\ load_files = <<>>
    /\ load_selected = 0
    /\ keybind_selected = 0
    /\ capture_action = None
    /\ pending_key = None
    /\ pending_action = None
    /\ pending_conflict = None
    /\ themeFile = None
    /\ theme = ThemeName_load_or_default(themeFile)
    /\ theme_selected = 0
    /\ now = 0
    /\ rebinds = 0
    /\ typed = MaxTyped
    /\ crashed = FALSE
    /\ exit_code = None

\* run_ui leaves its loop on the Quit key in any mode, and main, lines 62-66,
\* saves to the file of --file: an error of the save is the result of main
main_exit ==
    /\ ~crashed
    /\ exit_code = None
    /\ keys["Quit"] # KeyNull
    /\ \E ok \in IoOutcomes :
          IF ok
          THEN /\ disk' = [disk EXCEPT ![CliFile] = Some(save_to_file(entries))]
               /\ exit_code' = Some(0)
          ELSE /\ disk' = disk
               /\ exit_code' = Some(1)
    /\ UNCHANGED <<entryVars, inputVars, pendVars, mode, time_hack, crashed,
                   bindVars, menuVars, loadVars, themeVars, now, typed, io_faulty>>

MainKeys == Events({KeyEnter, KeyEsc, KeyDown, Char("j"), Char("l")})

NextMain ==
    \/ NormalKey(MainKeys)
    \/ EditingKey(MainKeys)
    \/ LoadingKey(MainKeys)
    \/ main_exit

SpecMain == InitMain /\ [][NextMain]_vars

----------------------------------------------------------------------------
(* The claims. *)

\* the steps that pressing the key bound to an action produces
ConfirmPressed == handle_event(KeyEvent(keys["NewNote"]))
CancelPressed == handle_event(KeyEvent(keys["Cancel"]))
EditPressed == handle_event(KeyEvent(keys["Edit"]))

NoteIndices(es) == {i \in 1..Len(es) : es[i].kind = "Note"}

\* C1: in every reachable state every Note entry of entries has an element of
\* notes with the same timestamp, and every element of notes has a Note entry
\* with its timestamp.
C1_NotesInSync ==
    /\ \A i \in NoteIndices(entries) :
          \E j \in 1..Len(notes) : notes[j].timestamp = entries[i].timestamp
    /\ \A j \in 1..Len(notes) :
          \E i \in NoteIndices(entries) : entries[i].timestamp = notes[j].timestamp

\* a note the user wrote followed by the audit note of a time hack
C1_Witness ==
    /\ mode = "Normal"
    /\ time_hack # None
    /\ Len(entries) = 2
    /\ entries[1].kind = "Note" /\ entries[1].text = <<>>
    /\ entries[2].kind = "Note" /\ entries[2].text = TimeHackText
    /\ Len(notes) = 2

\* C2: the selection is None whenever entries is empty and otherwise None or an
\* index below entries.len(); no operation indexes entries out of bounds.
C2_SelectionInBounds ==
    /\ entries = <<>> => selected = None
    /\ selected # None => selected[1] >= 0 /\ selected[1] < Len(entries)
    /\ ~crashed

\* edit_selected has acted on the last of several entries
C2_Witness ==
    /\ Len(entries) = MaxEntries
    /\ selected = Some(Len(entries) - 1)
    /\ edit_index = selected
    /\ mode = "EditingExistingNote"

\* C4: a note created by start_note and finalize_note carries the time
\* current_time() returned at start_note, whatever ticks and key presses came
\* between, and no step but an in-place load changes the timestamp of a note.
C4_TimestampAtStart ==
    [][/\ (mode = "Normal" /\ mode' = "EditingNote")
            => note_time' = Some(current_time)
       /\ (mode = "EditingNote" /\ mode' = "EditingNote")
            => note_time' = note_time
       /\ (mode = "EditingNote" /\ ConfirmPressed)
            => /\ note_time # None
               /\ Len(entries') = Len(entries) + 1
               /\ entries'[Len(entries')].kind = "Note"
               /\ entries'[Len(entries')].timestamp = note_time[1]
               /\ notes'[Len(notes')].timestamp = note_time[1]
       /\ ~(mode = "Loading" /\ ConfirmPressed)
            => \A i \in NoteIndices(entries) :
                  /\ entries'[i].kind = "Note"
                  /\ entries'[i].timestamp = entries[i].timestamp
      ]_vars

\* a note started at instant 1 whose text was typed and which was finalized
\* before the clock reached its last instant
C4_Witness ==
    /\ mode = "Normal"
    /\ now = MaxClock
    /\ \E i \in NoteIndices(entries) :
          /\ entries[i].text = <<"e">>
          /\ entries[i].timestamp = 1

\* C5: start_note enters EditingNote with an empty buffer, a pending
\* timestamp and no edit index; finalize_note then appends exactly one Note
\* holding the buffer to both entries and notes, selects it, clears the pending
\* timestamp and the buffer and returns to Normal.
C5_NewNoteAppended ==
    [][/\ (mode = "Normal" /\ ConfirmPressed)
            => /\ mode' = "EditingNote"
               /\ input' = <<>>
               /\ note_time' # None
               /\ edit_index' = None
       /\ (mode = "EditingNote" /\ ConfirmPressed)
            => /\ edit_index = None
               /\ note_time # None
               /\ entries' = Append(entries, Note(note_time[1], input))
               /\ notes' = Append(notes, Note(note_time[1], input))
               /\ selected' = Some(Len(entries') - 1)
               /\ note_time' = None
               /\ input' = <<>>
               /\ mode' = "Normal"
      ]_vars

\* a second note, with typed text, appended after a first and selected
C5_Witness ==
    /\ mode = "Normal"
    /\ Len(entries) = 2 /\ Len(notes) = 2
    /\ entries[2] = notes[2]
    /\ entries[2].kind = "Note" /\ entries[2].text = <<" ">>
    /\ selected = Some(1)
    /\ note_time = None /\ input = <<>>

\* the position in notes of the note at entries index i (1-based): the number
\* of Note entries up to i
NotePosition(es, i) == Cardinality({j \in 1..i : es[j].kind = "Note"})

\* C6: finalizing the edit of the Note entry at index i sets entries[i].text
\* and the text of the element of notes for that same note to the buffer and
\* changes nothing else of entries and notes, also when notes share a timestamp.
C6_EditUpdatesSameNote ==
    [][(/\ mode = "EditingExistingNote"
        /\ ConfirmPressed
        /\ edit_index # None
        /\ edit_index[1] < Len(entries)
        /\ entries[edit_index[1] + 1].kind = "Note"
        /\ Len(notes) = Cardinality(NoteIndices(entries)))
        => LET i == edit_index[1] + 1
               k == NotePosition(entries, i)
           IN  /\ entries' = [entries EXCEPT ![i].text = input]
               /\ notes' = [notes EXCEPT ![k].text = input]
      ]_vars

\* C7: edit_selected on a selected Section entry enters EditingExistingSection
\* with the title in the buffer; finalize_section then overwrites the title of
\* that entry with the buffer and changes nothing else of entries, notes and
\* the selection, and the mode returns to Normal.
C7_SectionEditInPlace ==
    [][/\ (/\ mode = "Normal"
           /\ EditPressed
           /\ selected # None
           /\ entries[selected[1] + 1].kind = "Section")
            => /\ mode' = "EditingExistingSection"
               /\ input' = entries[selected[1] + 1].title
               /\ edit_index' = selected
       /\ (mode = "EditingExistingSection" /\ ConfirmPressed)
            => /\ edit_index # None
               /\ edit_index[1] < Len(entries)
               /\ entries[edit_index[1] + 1].kind = "Section"
               /\ entries' = [entries EXCEPT ![edit_index[1] + 1].title = input]
               /\ notes' = notes
               /\ selected' = selected
               /\ mode' = "Normal"
      ]_vars

\* a section whose title was edited away, beside an untouched note
C7_Witness ==
    /\ mode = "Normal"
    /\ Len(entries) = 2
    /\ entries[1].kind = "Note"
    /\ entries[2] = Section(<<>>)
    /\ Len(notes) = 1
    /\ selected = Some(1)

\* char::is_whitespace, for the characters of the model
Whitespace == {" "}

\* C8: finalize_section, while no existing section is being edited, with a
\* buffer that is empty or all whitespace leaves entries and the selection
\* unchanged and returns to Normal.
C8_BlankSectionDiscarded ==
    [][(/\ mode = "EditingSection"
        /\ ConfirmPressed
        /\ edit_index = None
        /\ \A i \in 1..Len(input) : input[i] \in Whitespace)
        => /\ entries' = entries
           /\ selected' = selected
           /\ mode' = "Normal"
      ]_vars

\* C9: no Section entry of entries has an empty title.
C9_NoEmptySectionTitle ==
    \A i \in 1..Len(entries) :
        entries[i].kind = "Section" => entries[i].title # <<>>

\* C3: no two distinct actions are bound to the same key, the unbound sentinel
\* Null apart, after any sequence of key presses from the default bindings.
C3_NoSharedKey ==
    \A a, b \in Action :
        (a # b /\ keys[a] = keys[b]) => keys[a] = KeyNull

\* C10: in each of the six text-editing modes, pressing the key bound to Cancel
\* returns to Normal with the buffer empty, the caret at 0, the pending
\* timestamp and the edit index cleared, and entries, notes, the selection, the
\* time hack and the key bindings unchanged.
C10_CancelAborts ==
    [][(mode \in EditingModes /\ CancelPressed)
        => /\ mode' = "Normal"
           /\ input' = <<>>
           /\ cursor' = 0
           /\ note_time' = None
           /\ edit_index' = None
           /\ UNCHANGED <<entries, notes, selected, time_hack, keys>>
      ]_vars

\* C11: loading the file that save_to_file writes for the entries of a
\* reachable App succeeds and yields the same entries and the same notes.
C11_SaveLoadRoundTrip ==
    LET app == load_from_file(save_to_file(entries))
    IN  /\ app.ok
        /\ app.entries = entries
        /\ app.notes = notes

\* the rows of a file that become entries, in file order
KeptRows(rows) == SelectSeq(rows, LAMBDA r : r.tag \in {"note", "section"})

\* a file every note row of which carries a timestamp that parses
Loadable(rows) ==
    \A i \in 1..Len(rows) :
        rows[i].tag = "note" => parse_from_rfc3339(rows[i].ts) # None

\* the entry a kept row stands for
RowEntry(r) ==
    IF r.tag = "note" THEN Note(parse_from_rfc3339(r.ts)[1], r.text)
    ELSE Section(r.text)

\* C12: in Loading mode, the confirm key with a loadable file selected replaces
\* entries and notes with the note and section rows of that file, in file
\* order, and returns to Normal; the Cancel key returns to Normal with entries
\* and notes unchanged.
C12_LoadReplaces ==
    [][mode = "Loading" =>
        /\ (/\ ConfirmPressed
            /\ load_selected < Len(load_files)
            /\ Loadable(disk[load_files[load_selected + 1]][1]))
            => LET kept == KeptRows(disk[load_files[load_selected + 1]][1])
                   es == [i \in 1..Len(kept) |-> RowEntry(kept[i])]
               IN  /\ entries' = es
                   /\ notes' = SelectSeq(es, LAMBDA e : e.kind = "Note")
                   /\ mode' = "Normal"
        /\ CancelPressed
            => /\ mode' = "Normal"
               /\ UNCHANGED <<entries, notes>>
      ]_vars

\* C13: string_to_key(key_to_string(k)) = Some(k) for every symbolic key and
\* every single printable character k, here for every such key an action is
\* bound to.
C13_KeyRoundTrip ==
    \A a \in Action :
        (keys[a] \in SymbolicKeys \/ IsChar(keys[a]))
            => string_to_key(key_to_string(keys[a])) = Some(keys[a])

\* the keys a user can press: every key code but the unbound sentinel
Pressable == {KeyEnter, KeyEsc, KeyUp, KeyDown, KeyLeft, KeyRight, KeyBackspace,
              KeyF1} \cup {Char(c) : c \in {"b", "l", "e", "s", "h", "1", " "}}

\* C14: in KeyCapture for action A, a key k that is neither the Cancel key nor,
\* when A is not Bindings, the Bindings key, and that is bound to some other
\* action, changes no binding, stashes k, A and an action other than A that k
\* is bound to, and moves to ConfirmReplace.
C14_ConflictStashed ==
    [][\A k \in Pressable :
        (/\ mode = "KeyCapture"
         /\ capture_action # None
         /\ handle_event(KeyEvent(k))
         /\ k # keys["Cancel"]
         /\ (capture_action[1] # "Bindings" => k # keys["Bindings"])
         /\ \E B \in Action : B # capture_action[1] /\ keys[B] = k)
            => /\ keys' = keys
               /\ pending_key' = Some(k)
               /\ pending_action' = capture_action
               /\ pending_conflict' # None
               /\ pending_conflict'[1] # capture_action[1]
               /\ keys[pending_conflict'[1]] = k
               /\ mode' = "ConfirmReplace"
      ]_vars

\* C15: in ConfirmReplace with stash (k, A, B), Enter binds B to Null and A to
\* k, leaves the binding of every other action unchanged, clears the stash and
\* returns to KeyBindings.
C15_ConfirmApplies ==
    [][(/\ mode = "ConfirmReplace"
        /\ handle_event(KeyEvent(KeyEnter))
        /\ pending_key # None /\ pending_action # None /\ pending_conflict # None)
        => /\ keys'[pending_conflict[1]] = KeyNull
           /\ keys'[pending_action[1]] = pending_key[1]
           /\ \A a \in Action \ {pending_action[1], pending_conflict[1]} :
                  keys'[a] = keys[a]
           /\ pending_key' = None
           /\ pending_action' = None
           /\ pending_conflict' = None
           /\ mode' = "KeyBindings"
      ]_vars

\* Down took Enter from NewNote through a confirmed replacement
C15_Witness ==
    /\ mode = "KeyBindings"
    /\ keys["Down"] = KeyEnter
    /\ keys["NewNote"] = KeyNull
    /\ pending_key = None /\ pending_action = None /\ pending_conflict = None

\* C16: in ConfirmReplace, the key bound to Cancel discards the stashed rebind
\* and returns to KeyBindings with every key binding unchanged.
C16_CancelDiscards ==
    [][(/\ mode = "ConfirmReplace"
        /\ keys["Cancel"] \in Pressable
        /\ CancelPressed)
        => /\ keys' = keys
           /\ pending_key' = None
           /\ pending_action' = None
           /\ pending_conflict' = None
           /\ mode' = "KeyBindings"
      ]_vars

\* the steps that pressing the key bound to Bindings produces
BindingsPressed == handle_event(KeyEvent(keys["Bindings"]))

\* C17: in KeyCapture for an action A other than Bindings, the key bound to
\* Bindings moves to BindWarning with the bindings unchanged and capture_action
\* still A; in BindWarning any key other than the Cancel key returns to
\* KeyCapture with capture_action still A and the bindings unchanged.
C17_BindWarningRetry ==
    [][/\ (/\ mode = "KeyCapture"
           /\ capture_action # None
           /\ capture_action[1] # "Bindings"
           /\ keys["Bindings"] \in Pressable
           /\ BindingsPressed)
            => /\ mode' = "BindWarning"
               /\ keys' = keys
               /\ capture_action' = capture_action
       /\ \A k \in Pressable \ {keys["Cancel"]} :
            (mode = "BindWarning" /\ handle_event(KeyEvent(k)))
                => /\ mode' = "KeyCapture"
                   /\ keys' = keys
                   /\ capture_action' = capture_action
                   /\ capture_action # None
      ]_vars

\* C18: in KeyCapture and in BindWarning, the key bound to Cancel returns to
\* KeyBindings, sets capture_action to None and changes no key binding.
C18_CaptureCancelled ==
    [][(mode \in {"KeyCapture", "BindWarning"} /\ CancelPressed)
        => /\ mode' = "KeyBindings"
           /\ capture_action' = None
           /\ keys' = keys
      ]_vars

\* a warning shown while capturing for Cancel itself, after Cancel was rebound
C18_Witness ==
    /\ mode = "BindWarning"
    /\ capture_action = Some("Cancel")
    /\ keys["Cancel"] = KeyF1

\* C19: in KeyCapture for action A, a key k that is not the Cancel key, does
\* not trigger the warning and is bound to no action other than A is bound to
\* A at once; every other binding and the empty stash stay as they are,
\* capture_action is cleared and the mode returns to KeyBindings.
C19_FreeKeyBound ==
    [][\A k \in Pressable :
        (/\ mode = "KeyCapture"
         /\ capture_action # None
         /\ handle_event(KeyEvent(k))
         /\ k # keys["Cancel"]
         /\ ~(k = keys["Bindings"] /\ capture_action[1] # "Bindings")
         /\ \A B \in Action \ {capture_action[1]} : keys[B] # k)
            => /\ keys' = [keys EXCEPT ![capture_action[1]] = k]
               /\ pending_key' = None
               /\ pending_action' = None
               /\ pending_conflict' = None
               /\ capture_action' = None
               /\ mode' = "KeyBindings"
      ]_vars

\* Down was bound to the free key F1 without a confirmation
C19_Witness ==
    /\ mode = "KeyBindings"
    /\ keys = [KeyBindings_default EXCEPT !["Down"] = KeyF1]
    /\ capture_action = None
    /\ pending_key = None /\ pending_action = None /\ pending_conflict = None

\* C20: in KeyBindings mode, Enter moves to KeyCapture with capture_action the
\* action at index keybind_selected of Action::ALL, whatever keys Up, Down and
\* Cancel are bound to.
C20_EnterOpensCapture ==
    [][(mode = "KeyBindings" /\ handle_event(KeyEvent(KeyEnter)))
        => /\ mode' = "KeyCapture"
           /\ capture_action' = Some(ALL[keybind_selected + 1])
      ]_vars

(* C21: the bindings menu can always be reached: no step leaves Bindings      *)
(* bound to the Null key, and pressing the key bound to Bindings in Normal    *)
(* mode opens the KeyBindings menu.                                           *)
C21_BindingsReachable ==
    [][/\ keys'["Bindings"] # KeyNull
       /\ (mode = "Normal" /\ keys["Bindings"] \in Pressable /\ BindingsPressed)
              => mode' = "KeyBindings"]_vars

(* C22: finalizing the TimeHack input with a non-empty, parseable text        *)
(* installs the hack (base = the parsed time of day, captured now), appends   *)
(* one audit Note stamped with the real system time, not the hacked time, to  *)
(* the end of entries and of notes, selects it, clears the input and returns  *)
(* to Normal.                                                                 *)
C22_HackInstalled ==
    [][(mode = "TimeHack" /\ ConfirmPressed /\ input # <<>>
            /\ parse_from_str(input) # None)
        => LET audit == Note(now, TimeHackText) IN
           /\ time_hack' = Some(<<parse_from_str(input)[1], now>>)
           /\ entries' = Append(entries, audit)
           /\ notes' = Append(notes, audit)
           /\ selected' = Some(Len(entries))
           /\ input' = <<>>
           /\ mode' = "Normal"
      ]_vars

\* a hack has just been installed: its audit note is the last entry and the
\* selected one, and carries the real time although the hacked clock differs
C22_Witness ==
    /\ mode = "Normal"
    /\ time_hack # None
    /\ entries # <<>>
    /\ entries[Len(entries)] = Note(time_hack[1][2], TimeHackText)
    /\ notes # <<>>
    /\ notes[Len(notes)] = entries[Len(entries)]
    /\ selected = Some(Len(entries) - 1)
    /\ now = time_hack[1][2]
    /\ current_time # now

(* C23: finalizing the TimeHack input with a non-empty text that does not     *)
(* parse leaves the hack (present or absent), entries, notes and the          *)
(* selection as they were, clears the input and the caret and returns to      *)
(* Normal without an error.                                                   *)
C23_BadHackIgnored ==
    [][(mode = "TimeHack" /\ ConfirmPressed /\ input # <<>>
            /\ parse_from_str(input) = None)
        => /\ UNCHANGED <<time_hack, entries, notes, selected>>
           /\ input' = <<>>
           /\ cursor' = 0
           /\ mode' = "Normal"
           /\ ~crashed'
      ]_vars

\* an input that does not parse is about to be finalized while a hack is
\* active and its audit note is in the list
C23_Witness ==
    /\ mode = "TimeHack"
    /\ input # <<>>
    /\ parse_from_str(input) = None
    /\ time_hack # None
    /\ entries # <<>>
    /\ keys["NewNote"] \in Pressable
    /\ ~crashed

\* the reset key of the TimeHack input
ResetPressed == handle_event(KeyEvent(Char("r")))

(* C24: the time hack changes in three ways only, all in TimeHack mode: it is *)
(* set by finalizing a parseable input, and it is cleared by the reset key or *)
(* by finalizing an empty input, both of which add no entry and return to     *)
(* Normal.  Every other step of every mode leaves it as it was.               *)
C24_HackLifecycle ==
    [][time_hack' # time_hack
        => /\ mode = "TimeHack"
           /\ \/ /\ ConfirmPressed
                 /\ input # <<>>
                 /\ parse_from_str(input) # None
                 /\ time_hack' # None
              \/ /\ ResetPressed
                 /\ time_hack' = None
                 /\ UNCHANGED <<entries, notes>>
                 /\ mode' = "Normal"
              \/ /\ ConfirmPressed
                 /\ input = <<>>
                 /\ time_hack' = None
                 /\ UNCHANGED <<entries, notes>>
                 /\ mode' = "Normal"
      ]_vars

(* C25 as stated: with a hack active the current time is the base at the      *)
(* capture and then advances in lock-step with the system clock, one unit for *)
(* every unit of the system clock.                                            *)
C25_LockStep ==
    [][/\ (time_hack' # None /\ time_hack' # time_hack)
            => current_time' = date_naive(now') + time_hack'[1][1]
       /\ (time_hack # None /\ time_hack' = time_hack)
            => current_time' - current_time = now' - now
      ]_vars

(* C25: with a hack (base, capture) active the current time is today's date   *)
(* at base plus the time elapsed since the capture: it is the base on today's *)
(* date at the capture, and it then advances with the system clock, plus the  *)
(* change of today's date when the system clock passes midnight.  With no     *)
(* hack it is the system clock.  start_note takes this value as the pending   *)
(* timestamp.                                                                 *)
C25_CurrentTime ==
    [][/\ (time_hack' # None /\ time_hack' # time_hack)
            => current_time' = date_naive(now') + time_hack'[1][1]
       /\ (time_hack # None /\ time_hack' = time_hack)
            => current_time' - current_time
                   = (now' - now) + (date_naive(now') - date_naive(now))
       /\ time_hack' = None => current_time' = now'
       /\ (mode = "Normal" /\ ConfirmPressed)
            => /\ mode' = "EditingNote"
               /\ note_time' = Some(IF time_hack # None
                                    THEN date_naive(now) + time_hack[1][1]
                                             + (now - time_hack[1][2])
                                    ELSE now)
      ]_vars

\* a note is being written under a hack whose clock has left the system
\* clock: the pending timestamp is the hacked time
C25_Witness ==
    /\ mode = "EditingNote"
    /\ time_hack # None
    /\ now > time_hack[1][2]
    /\ note_time = Some(current_time)
    /\ current_time # now

\* under a hack the system clock has passed midnight since the capture
C25_MidnightWitness ==
    /\ time_hack # None
    /\ date_naive(now) > date_naive(time_hack[1][2])

(* C26: in every reachable state, a loaded non-empty file and any number of   *)
(* select_next and select_previous calls included, the selection is None if   *)
(* and only if entries is empty, and is otherwise an index below the length   *)
(* of entries.                                                                *)
C26_SelectionIffEmpty ==
    /\ selected = None <=> entries = <<>>
    /\ selected # None => selected[1] \in 0 .. (Len(entries) - 1)

\* the keys bound to Up and to Down
UpPressed == handle_event(KeyEvent(keys["Up"]))

DownPressed == handle_event(KeyEvent(keys["Down"]))

(* C27: select_next moves Some(i) to Some(i+1) only when i+1 is below the     *)
(* length of entries, moves None to Some(0) only when entries is non-empty,   *)
(* and otherwise changes nothing; select_previous moves Some(i) with i > 0 to *)
(* Some(i-1) and changes nothing from Some(0) and from None; neither changes  *)
(* anything but the selection.                                                *)
C27_SelectionMoves ==
    [][/\ (mode = "Normal" /\ keys["Down"] # keys["Up"] /\ DownPressed)
            => selected' =
                 CASE selected # None /\ selected[1] + 1 < Len(entries)
                          -> Some(selected[1] + 1)
                   [] selected = None /\ entries # <<>> -> Some(0)
                   [] OTHER -> selected
       /\ (mode = "Normal" /\ UpPressed)
            => selected' =
                 CASE selected # None /\ selected[1] > 0 -> Some(selected[1] - 1)
                   [] OTHER -> selected
       /\ (mode = "Normal" /\ (UpPressed \/ DownPressed))
            => UNCHANGED <<entries, notes, inputVars, pendVars, mode, time_hack,
                           crashed, restVars, io_faulty>>
      ]_vars

\* the first of two entries is selected: the selection was moved there by
\* select_previous from the second, or by select_next after a load
C27_Witness ==
    /\ mode = "Normal"
    /\ Len(entries) = 2
    /\ selected = Some(0)
    /\ input = <<>>

\* the characters a user can type, but for r, which the TimeHack input takes
\* as its reset key
Typeable == {"a", "s", "e", "h", "l", "b", "1", " "} \cup WideChars

(* C28: in every text-editing mode and under every reachable key binding, a   *)
(* printable character pressed with no modifier is inserted into the input at *)
(* the caret (the input becomes prefix, character, suffix), the caret         *)
(* advances by one and the mode stays.                                        *)
C28_CharInserted ==
    [][\A c \in Typeable :
         (mode \in EditingModes /\ handle_event(KeyEvent(Char(c))))
            => /\ cursor <= Len(input)
               /\ input' = SubSeq(input, 1, cursor) \o <<c>>
                               \o SubSeq(input, cursor + 1, Len(input))
               /\ cursor' = cursor + 1
               /\ mode' = mode
               /\ ~crashed'
      ]_vars

\* what a failed save or load must leave as it was
Kept == <<entries, notes, selected, time_hack, keys>>

(* C29: a save confirmed in Saving mode that fails, and a load confirmed in   *)
(* Loading mode that fails, raise no error, return to Normal and leave        *)
(* entries, notes, the selection, the time hack and the key bindings as they  *)
(* were: a load either installs the whole file or nothing, and installs       *)
(* nothing from a file with a row it cannot read.                             *)
C29_FailureSwallowed ==
    [][/\ (mode = "Saving" /\ ConfirmPressed)
            => /\ mode' = "Normal"
               /\ ~crashed'
               /\ UNCHANGED Kept
       /\ (mode = "Loading" /\ ConfirmPressed /\ load_selected < Len(load_files))
            => LET rows == disk[load_files[load_selected + 1]][1]
                   kept == KeptRows(rows)
               IN  /\ mode' = "Normal"
                   /\ ~crashed'
                   /\ ~Loadable(rows) => UNCHANGED Kept
                   /\ \/ UNCHANGED Kept
                      \/ /\ Loadable(rows)
                         /\ entries' = [i \in 1..Len(kept) |-> RowEntry(kept[i])]
      ]_vars

\* the damaged file was chosen in the Loading menu and the app is back in
\* Normal mode with its entries and its time hack
C29_Witness ==
    /\ mode = "Normal"
    /\ load_files # <<>>
    /\ load_selected < Len(load_files)
    /\ ~Loadable(disk[load_files[load_selected + 1]][1])
    /\ entries # <<>>
    /\ time_hack # None
    /\ ~crashed

(* C30: for every binding table the rebind protocol produces, keys outside    *)
(* the set the codec names included, saving the table and reading it back     *)
(* with load_or_default gives the saved table for all twelve actions.         *)
C30_SavedKeysReadBack ==
    keysFile = Some(KeyBindingsConfig_from(keys))
        => load_or_default(keysFile) = keys

(* C31: with --file, an error while loading the file at startup, or while     *)
(* saving to it on exit, ends the process with an error: a file that cannot   *)
(* be read is never replaced by the entries of an empty app.  Here: when main *)
(* returns, a file that could not be loaded makes the result an error and is  *)
(* left as it was, and a result of success means the entries were saved.      *)
C31_StartupErrorExits ==
    [][(exit_code = None /\ exit_code' # None)
        => /\ (disk[CliFile] = None \/ ~Loadable(disk[CliFile][1]))
                => /\ exit_code' = Some(1)
                   /\ disk' = disk
           /\ exit_code' = Some(0)
                => disk'[CliFile] = Some(save_to_file(entries))
      ]_vars

(* C32: whenever the mode is Normal the transient edit state is clean: the    *)
(* input is empty, the caret is 0, the pending timestamp is None and the edit *)
(* index is None.                                                             *)
C32_NormalIsClean ==
    mode = "Normal"
        => /\ input = <<>>
           /\ cursor = 0
           /\ note_time = None
           /\ edit_index = None

\* back in Normal mode after a typed text was moved from the input into a note
C32_Witness ==
    /\ mode = "Normal"
    /\ input = <<>>
    /\ note_time = None
    /\ \E i \in 1..Len(entries) :
          entries[i].kind = "Note" /\ entries[i].text = <<"e">>

(* C33: capture_action is Some exactly in KeyCapture and BindWarning;         *)
(* pending_key, pending_action and pending_conflict are all Some exactly in   *)
(* ConfirmReplace and all None otherwise; in ConfirmReplace the conflicting   *)
(* action differs from the pending action and the pending key is the key the  *)
(* conflicting action is bound to.                                            *)
C33_RebindStash ==
    /\ capture_action # None <=> mode \in {"KeyCapture", "BindWarning"}
    /\ IF mode = "ConfirmReplace"
       THEN /\ pending_key # None
            /\ pending_action # None
            /\ pending_conflict # None
            /\ pending_conflict # pending_action
            /\ keys[pending_conflict[1]] = pending_key[1]
       ELSE /\ pending_key = None
            /\ pending_action = None
            /\ pending_conflict = None

\* a conflict is awaiting confirmation after an earlier rebind
C33_Witness ==
    /\ mode = "ConfirmReplace"
    /\ pending_action # None
    /\ pending_conflict # None
    /\ capture_action = None
    /\ rebinds > 0

(* C34: in EditingNote the pending timestamp is Some and the edit index is    *)
(* None, so that the confirm key always creates a note; in                    *)
(* EditingExistingNote and EditingExistingSection the edit index is Some(i)   *)
(* with i below the length of entries and entries[i] is a Note and a Section  *)
(* respectively.                                                              *)
C34_EditTargetValid ==
    /\ mode = "EditingNote" => note_time # None /\ edit_index = None
    /\ mode = "EditingExistingNote"
          => /\ edit_index # None
             /\ edit_index[1] \in 0 .. (Len(entries) - 1)
             /\ entries[edit_index[1] + 1].kind = "Note"
    /\ mode = "EditingExistingSection"
          => /\ edit_index # None
             /\ edit_index[1] \in 0 .. (Len(entries) - 1)
             /\ entries[edit_index[1] + 1].kind = "Section"

\* the second of two entries, a section, is being edited
C34_Witness ==
    /\ mode = "EditingExistingSection"
    /\ Len(entries) = 2
    /\ edit_index = Some(1)
    /\ entries[2].kind = "Section"
    /\ note_time = None

(* C35: in every text-editing state reached by inserts (characters of more    *)
(* than one byte included), backspaces and Left and Right presses, the caret  *)
(* is a valid insertion position: it is at most the length of the input in    *)
(* bytes and lies on a character boundary, and no insert or backspace fails.  *)
C35_CaretValid ==
    mode \in EditingModes
        => /\ cursor >= 0
           /\ cursor <= ByteLen(input)
           /\ is_char_boundary(input, cursor)
           /\ ~crashed

(* C36: every step other than an in-place load keeps entries append-only:     *)
(* its length does not decrease and grows by at most one, and every entry     *)
(* already there keeps its variant and, for a note, its timestamp; only the   *)
(* text or title of the entry being edited can change.                        *)
C36_EntriesAppendOnly ==
    [][~(mode = "Loading" /\ ConfirmPressed)
        => /\ Len(entries') \in {Len(entries), Len(entries) + 1}
           /\ \A i \in 1..Len(entries) :
                 \/ entries'[i] = entries[i]
                 \/ /\ edit_index = Some(i - 1)
                    /\ entries'[i].kind = entries[i].kind
                    /\ entries[i].kind = "Note"
                          => entries'[i].timestamp = entries[i].timestamp
      ]_vars

\* a note read from a file carries a character typed after its text: it was
\* edited in place, and the entry after it is as it was read
C36_Witness ==
    /\ mode = "Normal"
    /\ Len(entries) = 2
    /\ entries[1] = Note(0, <<"a", "e">>)
    /\ entries[2] = Note(0, <<"b">>)
    /\ edit_index = None

(* C37: in every reachable state notes is the subsequence of the Note entries *)
(* of entries, in the same order and with the same timestamps and texts, also *)
(* when two notes share a timestamp and one of them is edited.                *)
C37_NotesAreNoteEntries ==
    notes = SelectSeq(entries, LAMBDA e : e.kind = "Note")

(* C38: the rebind protocol never unbinds Cancel: after any sequence of key   *)
(* presses from the default bindings Cancel is bound to a key other than      *)
(* Null, since the Cancel key pressed in KeyCapture aborts the capture and    *)
(* Cancel is never the conflicting action of a ConfirmReplace.                *)
C38_CancelBound ==
    /\ keys["Cancel"] # KeyNull
    /\ mode = "ConfirmReplace" => pending_conflict # Some("Cancel")

\* Cancel has been moved to another key and every rebind of the session has
\* been committed: the menu is back with no capture and no stash
C38_Witness ==
    /\ mode = "KeyBindings"
    /\ capture_action = None
    /\ pending_conflict = None
    /\ keys["Cancel"] \notin {KeyEsc, KeyNull}
    /\ rebinds = MaxRebinds

(* C39: rebinding never leaves the application unable to commit input: the    *)
(* key bound to NewNote, the confirm key of the six text-editing modes and of *)
(* Loading, is never Null, and pressing it in an editing mode finalizes the   *)
(* mode and returns to Normal.                                                *)
C39_ConfirmBound ==
    [][/\ keys'["NewNote"] # KeyNull
       /\ (mode \in EditingModes /\ keys["NewNote"] \in Pressable /\ ConfirmPressed)
              => mode' = "Normal"
      ]_vars

(* C40: a successful in-place load from Loading mode changes the entry data   *)
(* only: the key bindings in effect and the selected theme are the same after *)
(* the load as before it, also when the bindings were set by set_keybindings  *)
(* and not read from the default configuration file.                          *)
C40_LoadKeepsSettings ==
    [][(mode = "Loading" /\ ConfirmPressed)
        => /\ keys' = keys
           /\ theme' = theme
      ]_vars

====
